---- MODULE Spec2Model ----
(***************************************************************************)
(* Model of app/api/gemini_api.py: the POST /extract-pdf handler           *)
(* (extract_pdf) with its helpers clean_text, extract_text_from_pdf_ocr    *)
(* and extract_structured_data_with_gemini.                                *)
(*                                                                         *)
(* Strings are sequences.  OCR text is a sequence of characters, where     *)
(* "a" stands for any non-whitespace character and " " and "\n" are        *)
(* whitespace.  LLM response text is a sequence of lexical tokens: "{",    *)
(* "}", ",", the fence "FENCE", the word "json", the whitespace " ", and     *)
(* the two object members "\"a\":\"1\"" and "\"error\":\"m\"".  Messages   *)
(* (exception texts, envelope errors) are sequences of string pieces, so   *)
(* that f-string concatenation is sequence concatenation.                  *)
(*                                                                         *)
(* os.unlink of an existing file is taken to succeed.                      *)
(***************************************************************************)
EXTENDS FiniteSets, Integers, Sequences, TLC

\* ------------------------------------------------------------------ bounds
MaxPages == 2
MaxLen == 5
NumPaths == 2
NumRequests == 2

\* ------------------------------------------------------- program constants
MinTextLen == 10

\* ------------------------------------------------------------ string model
WS == {" ", "\n"}

NoneMsg == << >>
EmptyMap == [k \in {} |-> << >>]

RECURSIVE lstrip(_)
lstrip(s) ==
  IF s = << >> THEN << >>
  ELSE IF Head(s) \in WS THEN lstrip(Tail(s)) ELSE s

RECURSIVE rstrip(_)
rstrip(s) ==
  IF s = << >> THEN << >>
  ELSE IF s[Len(s)] \in WS THEN rstrip(SubSeq(s, 1, Len(s) - 1)) ELSE s

strip(s) == rstrip(lstrip(s))

startswith(s, c) == Len(s) > 0 /\ s[1] = c

\* Variant of endswith: the suffix anywhere in the name (".pdf" in name).
contains(s, suffix) ==
  \E i \in 1..Len(s) :
    /\ i + Len(suffix) - 1 <= Len(s)
    /\ SubSeq(s, i, i + Len(suffix) - 1) = suffix

RECURSIVE endswith(_, _)
endswith(s, suffix) ==
  IF suffix = << >> THEN TRUE
  ELSE IF s = << >> THEN FALSE
  ELSE /\ s[Len(s)] = suffix[Len(suffix)]
       /\ endswith(SubSeq(s, 1, Len(s) - 1), SubSeq(suffix, 1, Len(suffix) - 1))

\* str.split(): the maximal runs of non-whitespace characters, in order.
RECURSIVE split(_, _, _)
split(s, cur, acc) ==
  IF s = << >> THEN (IF cur = << >> THEN acc ELSE Append(acc, cur))
  ELSE IF Head(s) \in WS
       THEN split(Tail(s), << >>, IF cur = << >> THEN acc ELSE Append(acc, cur))
       ELSE split(Tail(s), Append(cur, Head(s)), acc)

\* " ".join(words)
RECURSIVE join(_)
join(words) ==
  IF words = << >> THEN << >>
  ELSE IF Len(words) = 1 THEN words[1]
  ELSE words[1] \o <<" ">> \o join(Tail(words))

clean_text(text) == join(split(text, << >>, << >>))

\* --------------------------------------------------------------- json.loads
Members == {"\"a\":\"1\"", "\"error\":\"m\""}

KeyOf(m) == IF m = "\"error\":\"m\"" THEN "error" ELSE "a"
ValOf(k) == IF k = "error" THEN <<"m">> ELSE <<"1">>

NotWS(c) == c \notin WS

JSONDecodeErrorMsg == <<"JSONDecodeError">>

\* json.loads on a token sequence: whitespace is insignificant between
\* tokens, the whole text must be one object  { member (, member)* }  and a
\* repeated key keeps one entry.
json_loads(s) ==
  LET d == SelectSeq(s, NotWS)
      n == Len(d)
      inner == IF n >= 2 THEN SubSeq(d, 2, n - 1) ELSE << >>
      k == Len(inner)
      wellformed ==
        /\ n >= 2
        /\ d[1] = "{"
        /\ d[n] = "}"
        /\ \/ k = 0
           \/ /\ k % 2 = 1
              /\ \A i \in 1..k :
                   IF i % 2 = 1 THEN inner[i] \in Members ELSE inner[i] = ","
      keys == {KeyOf(inner[i]) : i \in {j \in 1..k : j % 2 = 1}}
  IN IF wellformed
     THEN [ok |-> TRUE, value |-> [key \in keys |-> ValOf(key)]]
     ELSE [ok |-> FALSE, value |-> EmptyMap]

\* ---------------------------------------------------------------- re.search
RECURSIVE SkipWS(_, _)
SkipWS(s, i) ==
  IF i <= Len(s) /\ s[i] \in WS THEN SkipWS(s, i + 1) ELSE i

\* Position of the "{" that the pattern reaches when it starts at the fence
\* at i, or 0:  FENCE (?:json)? \s* ( \{
OpenAt(s, i) ==
  IF i > Len(s) \/ s[i] # "FENCE" THEN 0
  ELSE LET j == IF i + 1 <= Len(s) /\ s[i + 1] = "json" THEN i + 2 ELSE i + 1
           b == SkipWS(s, j)
       IN IF b <= Len(s) /\ s[b] = "{" THEN b ELSE 0

\* Positions of a "}" that can end the group opened at b:  \} ) \s* FENCE
CloseSet(s, b) ==
  {e \in (b + 1)..Len(s) :
     /\ s[e] = "}"
     /\ LET f == SkipWS(s, e + 1) IN f <= Len(s) /\ s[f] = "FENCE"}

MinOf(S) == CHOOSE x \in S : \A y \in S : x <= y

\* re.search of  FENCE (?:json)? \s* ( \{ .*? \} ) \s* FENCE  with DOTALL: the
\* leftmost start that matches, with the shortest .*? from there.
re_search(s) ==
  LET starts == {i \in 1..Len(s) : OpenAt(s, i) # 0 /\ CloseSet(s, OpenAt(s, i)) # {}}
  IN IF starts = {} THEN [found |-> FALSE, group |-> << >>]
     ELSE LET b == OpenAt(s, MinOf(starts))
          IN [found |-> TRUE, group |-> SubSeq(s, b, MinOf(CloseSet(s, b)))]

\* ------------------------------------------------------------------ inputs
PdfExt == <<".", "p", "d", "f">>

\* report.docx, a.pdf, .pdf, a.PDF, a.pdf.txt, pdf
FileNames ==
  { <<"r", ".", "d", "o", "c", "x">>,
    <<"a", ".", "p", "d", "f">>,
    <<".", "p", "d", "f">>,
    <<"a", ".", "P", "D", "F">>,
    <<"a", ".", "p", "d", "f", ".", "t", "x", "t">>,
    <<"p", "d", "f">> }

FewNames == { <<"r", ".", "d", "o", "c", "x">>, <<"a", ".", "p", "d", "f">> }

Rep(n) == [i \in 1..n |-> "a"]
Words(n) == [i \in 1..(2 * n - 1) |-> IF i % 2 = 1 THEN "a" ELSE " "]

\* What the OCR engine may read on one page: nothing, blanks, "ab", five and
\* six one-letter words, a word broken by a newline inside padding, and
\* words of 5, 9 and 10 characters.
PageTexts ==
  { << >>, <<" ", " ", " ">>, Rep(2), Words(5), Words(6),
    <<" ", "a", "\n", "\n", "a", " ">>, Rep(5), Rep(9), Rep(10) }

FewPages == { Rep(2), Rep(10) }

Alphabet == {"{", "}", ",", "FENCE", "json", " ", "\"a\":\"1\"", "\"error\":\"m\""}

AllTexts == UNION {[1..n -> Alphabet] : n \in 0..MaxLen}

\* {"a":"1"}   {"error":"m"}   {"a":"1",}   fenced {"a":"1"} with tag and
\* padding, fenced {"a":"1",}, prose, the empty text, a bare object inside
\* padding, a two-member object holding "error"
SampleTexts ==
  { <<"{", "\"a\":\"1\"", "}">>,
    <<"{", "\"error\":\"m\"", "}">>,
    <<"{", "\"a\":\"1\"", ",", "}">>,
    <<"FENCE", "json", " ", "{", "\"a\":\"1\"", "}", " ", "FENCE">>,
    <<"json", " ", "FENCE", "{", "\"error\":\"m\"", "}", "FENCE">>,
    <<"FENCE", "json", " ", "{", "\"a\":\"1\"", ",", "}", " ", "FENCE">>,
    <<"json", " ", "json">>,
    << >>,
    <<" ", "{", "}", " ">>,
    <<"{", "\"a\":\"1\"", ",", "\"error\":\"m\"", "}">> }

FewTexts ==
  { <<"{", "\"a\":\"1\"", "}">>,
    <<"{", "\"a\":\"1\"", ",", "}">> }

\* What client.models.generate_content may raise.
LLMErrors ==
  { [type |-> "TimeoutError", status |-> 0, msg |-> << >>],
    [type |-> "ClientError", status |-> 0, msg |-> <<"429 quota exceeded">>] }

IOErrors ==
  { [type |-> "OSError", status |-> 0, msg |-> <<"No space left on device">>] }

\* What convert_from_path and pytesseract.image_to_string may raise.
RasterCauses == { <<"Unable to get page count">> }
OcrCauses == { <<"tesseract is not installed">> }

Paths == 1..NumPaths

\* ------------------------------------------------------------------- state
VARIABLES
  pc,              \* where each request is in extract_pdf
  filename,        \* file.filename
  temp_file,       \* local temp_file: 0 is None, else the open file's name
  temp_file_path,  \* local temp_file_path: 0 is unbound
  images,          \* pages not yet read by the OCR loop
  ocr_text,        \* local ocr_text of extract_text_from_pdf_ocr
  extracted_text,  \* local extracted_text
  response,        \* what generate_content did for this request
  structured_data, \* local structured_data
  exc,             \* the exception in flight or handled in extract_pdf
  result,          \* what the client receives
  calls,           \* how often the request used each external service
  visited,         \* the labels the request has been at
  fs,              \* the names that exist in the temporary directory
  owner            \* which request created the file now at each name

vars == <<pc, filename, temp_file, temp_file_path, images, ocr_text,
          extracted_text, response, structured_data, exc, result, calls,
          visited, fs, owner>>

NoExc == [type |-> "None", status |-> 0, msg |-> << >>]
NoResponse == [kind |-> "none", text |-> << >>, err |-> NoExc]
NoResult ==
  [kind |-> "none", status |-> 0, success |-> FALSE, data |-> EmptyMap,
   error |-> NoneMsg]

\* raise HTTPException(status_code, detail), as the framework answers it
HTTPError(status_code, detail) ==
  [kind |-> "HTTPException", status |-> status_code, success |-> FALSE,
   data |-> EmptyMap, error |-> detail]

\* return LLMResponse(success, data, error): HTTP 200 with the envelope
LLMResponse(success, data, error) ==
  [kind |-> "LLMResponse", status |-> 200, success |-> success, data |-> data,
   error |-> error]

\* str(e)
Str(e) ==
  IF e.type = "HTTPException"
  THEN (IF e.status = 500 THEN <<"500: ">> ELSE <<"400: ">>) \o e.msg
  ELSE e.msg

InitFor(Reqs) ==
  /\ pc = [r \in Reqs |-> "idle"]
  /\ filename = [r \in Reqs |-> << >>]
  /\ temp_file = [r \in Reqs |-> 0]
  /\ temp_file_path = [r \in Reqs |-> 0]
  /\ images = [r \in Reqs |-> 0]
  /\ ocr_text = [r \in Reqs |-> << >>]
  /\ extracted_text = [r \in Reqs |-> << >>]
  /\ response = [r \in Reqs |-> NoResponse]
  /\ structured_data = [r \in Reqs |-> EmptyMap]
  /\ exc = [r \in Reqs |-> NoExc]
  /\ result = [r \in Reqs |-> NoResult]
  /\ calls = [r \in Reqs |-> [tmp |-> 0, raster |-> 0, ocr |-> 0, llm |-> 0, unlink |-> 0]]
  /\ visited = [r \in Reqs |-> {"idle"}]
  /\ fs = {}
  /\ owner = [p \in Paths |-> 0]

Init == InitFor({1})

InitConc == InitFor(1..NumRequests)

Goto(r, label) ==
  /\ pc' = [pc EXCEPT ![r] = label]
  /\ visited' = [visited EXCEPT ![r] = @ \cup {label}]

Raise(r, e) ==
  /\ exc' = [exc EXCEPT ![r] = e]
  /\ Goto(r, "except")

\* ------------------------------------- extract_structured_data_with_gemini
ErrorMap(msg) == [k \in {"error"} |-> msg]
RawMap(text) == [k \in {"rawResponse"} |-> text]

TimeoutMsg == <<"API timeout - request took too long">>
NoneTextErr ==
  [type |-> "AttributeError", status |-> 0,
   msg |-> <<"'NoneType' object has no attribute 'strip'">>]
JSONDecodeError == [type |-> "JSONDecodeError", status |-> 0, msg |-> JSONDecodeErrorMsg]

\* Variant of ParseResponse: a span that fails to parse falls through to the
\* rawResponse wrapping.
ParseResponseFallsThrough(text) ==
  LET response_text == strip(text)
      direct == json_loads(response_text)
      json_match == re_search(response_text)
      fenced == json_loads(json_match.group)
      raw == [raised |-> FALSE, value |-> RawMap(response_text), err |-> NoExc]
  IN IF startswith(response_text, "{")
     THEN (IF direct.ok
           THEN [raised |-> FALSE, value |-> direct.value, err |-> NoExc]
           ELSE raw)
     ELSE IF json_match.found /\ fenced.ok
          THEN [raised |-> FALSE, value |-> fenced.value, err |-> NoExc]
          ELSE raw

\* Variant of ParseResponse: the fallback wraps the text before trimming.
ParseResponseUntrimmed(text) ==
  LET response_text == strip(text)
      direct == json_loads(response_text)
      json_match == re_search(response_text)
      fenced == json_loads(json_match.group)
  IN IF startswith(response_text, "{")
     THEN (IF direct.ok
           THEN [raised |-> FALSE, value |-> direct.value, err |-> NoExc]
           ELSE [raised |-> TRUE, value |-> EmptyMap, err |-> JSONDecodeError])
     ELSE IF json_match.found
          THEN (IF fenced.ok
                THEN [raised |-> FALSE, value |-> fenced.value, err |-> NoExc]
                ELSE [raised |-> TRUE, value |-> EmptyMap, err |-> JSONDecodeError])
          ELSE [raised |-> FALSE, value |-> RawMap(text), err |-> NoExc]

\* The body of the try block once generate_content has returned text: what
\* it assigns to extracted_data, or the exception json.loads raises.
ParseResponse(text) ==
  LET response_text == strip(text)
      direct == json_loads(response_text)
      json_match == re_search(response_text)
      fenced == json_loads(json_match.group)
  IN IF startswith(response_text, "{")
     THEN (IF direct.ok
           THEN [raised |-> FALSE, value |-> direct.value, err |-> NoExc]
           ELSE [raised |-> TRUE, value |-> EmptyMap, err |-> JSONDecodeError])
     ELSE IF json_match.found
          THEN (IF fenced.ok
                THEN [raised |-> FALSE, value |-> fenced.value, err |-> NoExc]
                ELSE [raised |-> TRUE, value |-> EmptyMap, err |-> JSONDecodeError])
          ELSE [raised |-> FALSE, value |-> RawMap(response_text), err |-> NoExc]

\* Variant of the adapter: one except branch, which reports every failure
\* of the call as a timeout.
extract_structured_data_timeout_only(outcome) ==
  IF outcome.kind = "raise"
  THEN ErrorMap(TimeoutMsg)
  ELSE IF outcome.kind = "null"
       THEN ErrorMap(Str(NoneTextErr))
       ELSE LET parsed == ParseResponse(outcome.text)
            IN IF parsed.raised THEN ErrorMap(Str(parsed.err)) ELSE parsed.value

\* The try/except of the adapter: every exception raised in the try block,
\* by the call or by the parsing, becomes a one-key mapping.
extract_structured_data_with_gemini(outcome) ==
  IF outcome.kind = "raise"
  THEN (IF outcome.err.type = "TimeoutError"
        THEN ErrorMap(TimeoutMsg)
        ELSE ErrorMap(Str(outcome.err)))
  ELSE IF outcome.kind = "null"
       THEN ErrorMap(Str(NoneTextErr))
       ELSE LET parsed == ParseResponse(outcome.text)
            IN IF parsed.raised THEN ErrorMap(Str(parsed.err)) ELSE parsed.value

\* ------------------------------------------------------------- extract_pdf
\* Variant of InsufficientText: the threshold one too low.
InsufficientTextBelowNine(text) == text = << >> \/ Len(strip(text)) < MinTextLen - 1

\* not extracted_text or len(extracted_text.strip()) < 10
InsufficientText(text) == text = << >> \/ Len(strip(text)) < MinTextLen

\* "error" in structured_data and len(structured_data) == 1
IsErrorMap(data) == "error" \in DOMAIN data /\ Cardinality(DOMAIN data) = 1

\* Variant of FreshNames: a name already in use may be given again.
AnyName(Dir, existing) == Dir

\* The names tempfile may give a new file: those not in use (O_EXCL).
FreshNames(Dir, existing) == Dir \ existing

Bump(r, service) == calls' = [calls EXCEPT ![r][service] = @ + 1]

Reject(r, Names) ==
  /\ pc[r] = "idle"
  /\ \E fn \in Names :
       /\ ~endswith(fn, PdfExt)
       /\ filename' = [filename EXCEPT ![r] = fn]
  /\ result' = [result EXCEPT ![r] = HTTPError(400, <<"Only PDF files are supported">>)]
  /\ Goto(r, "done")
  /\ UNCHANGED <<temp_file, temp_file_path, images, ocr_text, extracted_text,
                 response, structured_data, exc, calls, fs, owner>>

Accept(r, Names) ==
  /\ pc[r] = "idle"
  /\ \E fn \in Names :
       /\ endswith(fn, PdfExt)
       /\ filename' = [filename EXCEPT ![r] = fn]
  /\ temp_file' = [temp_file EXCEPT ![r] = 0]
  /\ Goto(r, "create")
  /\ UNCHANGED <<temp_file_path, images, ocr_text, extracted_text, response,
                 structured_data, exc, result, calls, fs, owner>>

CreateTemp(r, Dir) ==
  /\ pc[r] = "create"
  /\ \E p \in FreshNames(Dir, fs) :
       /\ fs' = fs \cup {p}
       /\ owner' = [owner EXCEPT ![p] = r]
       /\ temp_file' = [temp_file EXCEPT ![r] = p]
  /\ Bump(r, "tmp")
  /\ Goto(r, "write")
  /\ UNCHANGED <<filename, temp_file_path, images, ocr_text, extracted_text,
                 response, structured_data, exc, result>>

CreateTempFails(r) ==
  /\ pc[r] = "create"
  /\ \E e \in IOErrors : Raise(r, e)
  /\ UNCHANGED <<filename, temp_file, temp_file_path, images, ocr_text,
                 extracted_text, response, structured_data, result, calls,
                 fs, owner>>

SaveUpload(r) ==
  /\ pc[r] = "write"
  /\ temp_file_path' = [temp_file_path EXCEPT ![r] = temp_file[r]]
  /\ Goto(r, "raster")
  /\ UNCHANGED <<filename, temp_file, images, ocr_text, extracted_text,
                 response, structured_data, exc, result, calls, fs, owner>>

\* file.read() or temp_file.write(content) raises: the with block closes
\* the file, which stays (delete=False), and temp_file_path is not assigned.
SaveUploadFails(r) ==
  /\ pc[r] = "write"
  /\ \E e \in IOErrors : Raise(r, e)
  /\ UNCHANGED <<filename, temp_file, temp_file_path, images, ocr_text,
                 extracted_text, response, structured_data, result, calls,
                 fs, owner>>

\* the close at the end of the with block raises, after the assignment
CloseFails(r) ==
  /\ pc[r] = "write"
  /\ temp_file_path' = [temp_file_path EXCEPT ![r] = temp_file[r]]
  /\ \E e \in IOErrors : Raise(r, e)
  /\ UNCHANGED <<filename, temp_file, images, ocr_text, extracted_text,
                 response, structured_data, result, calls, fs, owner>>

OCRFailed(cause) ==
  [type |-> "HTTPException", status |-> 500,
   msg |-> <<"OCR extraction failed: ">> \o cause]

Rasterize(r, Counts) ==
  /\ pc[r] = "raster"
  /\ \E n \in Counts : images' = [images EXCEPT ![r] = n]
  /\ ocr_text' = [ocr_text EXCEPT ![r] = << >>]
  /\ Bump(r, "raster")
  /\ Goto(r, "ocr")
  /\ UNCHANGED <<filename, temp_file, temp_file_path, extracted_text,
                 response, structured_data, exc, result, fs, owner>>

RasterizeFails(r) ==
  /\ pc[r] = "raster"
  /\ \E cause \in RasterCauses : Raise(r, OCRFailed(cause))
  /\ Bump(r, "raster")
  /\ UNCHANGED <<filename, temp_file, temp_file_path, images, ocr_text,
                 extracted_text, response, structured_data, result, fs, owner>>

OcrPage(r, Pages) ==
  /\ pc[r] = "ocr"
  /\ images[r] > 0
  /\ \E t \in Pages : ocr_text' = [ocr_text EXCEPT ![r] = @ \o t \o <<"\n">>]
  /\ images' = [images EXCEPT ![r] = @ - 1]
  /\ Bump(r, "ocr")
  /\ UNCHANGED <<pc, visited, filename, temp_file, temp_file_path,
                 extracted_text, response, structured_data, exc, result, fs,
                 owner>>

OcrPageFails(r) ==
  /\ pc[r] = "ocr"
  /\ images[r] > 0
  /\ \E cause \in OcrCauses : Raise(r, OCRFailed(cause))
  /\ Bump(r, "ocr")
  /\ UNCHANGED <<filename, temp_file, temp_file_path, images, ocr_text,
                 extracted_text, response, structured_data, result, fs, owner>>

OcrReturn(r) ==
  /\ pc[r] = "ocr"
  /\ images[r] = 0
  /\ extracted_text' = [extracted_text EXCEPT ![r] = clean_text(ocr_text[r])]
  /\ Goto(r, "check")
  /\ UNCHANGED <<filename, temp_file, temp_file_path, images, ocr_text,
                 response, structured_data, exc, result, calls, fs, owner>>

NoText(r) ==
  /\ pc[r] = "check"
  /\ InsufficientText(extracted_text[r])
  /\ result' = [result EXCEPT ![r] =
       LLMResponse(FALSE, EmptyMap, <<"No text could be extracted from the PDF.">>)]
  /\ Goto(r, "finally")
  /\ UNCHANGED <<filename, temp_file, temp_file_path, images, ocr_text,
                 extracted_text, response, structured_data, exc, calls, fs,
                 owner>>

Gemini(r, outcome) ==
  /\ pc[r] = "check"
  /\ ~InsufficientText(extracted_text[r])
  /\ response' = [response EXCEPT ![r] = outcome]
  /\ structured_data' = [structured_data EXCEPT ![r] =
       extract_structured_data_with_gemini(outcome)]
  /\ Bump(r, "llm")
  /\ Goto(r, "respond")
  /\ UNCHANGED <<filename, temp_file, temp_file_path, images, ocr_text,
                 extracted_text, exc, result, fs, owner>>

GeminiRaises(r) ==
  /\ pc[r] = "check"
  /\ \E e \in LLMErrors : Gemini(r, [kind |-> "raise", text |-> << >>, err |-> e])

GeminiNoText(r) ==
  Gemini(r, [kind |-> "null", text |-> << >>, err |-> NoExc])

GeminiReturns(r, Texts) ==
  /\ pc[r] = "check"
  /\ ~InsufficientText(extracted_text[r])
  /\ \E t \in Texts : Gemini(r, [kind |-> "text", text |-> t, err |-> NoExc])

\* Variant of AIFailed: the failure envelope carries the adapter's mapping.
AIFailedKeepsData(r) ==
  /\ pc[r] = "respond"
  /\ IsErrorMap(structured_data[r])
  /\ result' = [result EXCEPT ![r] =
       LLMResponse(FALSE, structured_data[r],
                   <<"AI extraction failed: ">> \o structured_data[r]["error"])]
  /\ Goto(r, "finally")
  /\ UNCHANGED <<filename, temp_file, temp_file_path, images, ocr_text,
                 extracted_text, response, structured_data, exc, calls, fs,
                 owner>>

AIFailed(r) ==
  /\ pc[r] = "respond"
  /\ IsErrorMap(structured_data[r])
  /\ result' = [result EXCEPT ![r] =
       LLMResponse(FALSE, EmptyMap,
                   <<"AI extraction failed: ">> \o structured_data[r]["error"])]
  /\ Goto(r, "finally")
  /\ UNCHANGED <<filename, temp_file, temp_file_path, images, ocr_text,
                 extracted_text, response, structured_data, exc, calls, fs,
                 owner>>

Success(r) ==
  /\ pc[r] = "respond"
  /\ ~IsErrorMap(structured_data[r])
  /\ result' = [result EXCEPT ![r] = LLMResponse(TRUE, structured_data[r], NoneMsg)]
  /\ Goto(r, "finally")
  /\ UNCHANGED <<filename, temp_file, temp_file_path, images, ocr_text,
                 extracted_text, response, structured_data, exc, calls, fs,
                 owner>>

\* except Exception as e
Except(r) ==
  /\ pc[r] = "except"
  /\ result' = [result EXCEPT ![r] =
       LLMResponse(FALSE, EmptyMap, <<"Processing failed: ">> \o Str(exc[r]))]
  /\ Goto(r, "finally")
  /\ UNCHANGED <<filename, temp_file, temp_file_path, images, ocr_text,
                 extracted_text, response, structured_data, exc, calls, fs,
                 owner>>

\* finally: if temp_file: try: os.unlink(temp_file_path) except: pass
\* With temp_file_path unbound the unlink statement raises
\* UnboundLocalError, which the bare except swallows.
Finally(r) ==
  /\ pc[r] = "finally"
  /\ IF temp_file[r] # 0 /\ temp_file_path[r] # 0 /\ temp_file_path[r] \in fs
     THEN /\ fs' = fs \ {temp_file_path[r]}
          /\ owner' = [owner EXCEPT ![temp_file_path[r]] = 0]
          /\ Bump(r, "unlink")
     ELSE UNCHANGED <<fs, owner, calls>>
  /\ Goto(r, "done")
  /\ UNCHANGED <<filename, temp_file, temp_file_path, images, ocr_text,
                 extracted_text, response, structured_data, exc, result>>

\* One request, every file name and page text, representative LLM texts.
Next ==
  \/ \E r \in DOMAIN pc : Reject(r, FileNames)
  \/ \E r \in DOMAIN pc : Accept(r, FileNames)
  \/ \E r \in DOMAIN pc : CreateTemp(r, Paths)
  \/ \E r \in DOMAIN pc : CreateTempFails(r)
  \/ \E r \in DOMAIN pc : SaveUpload(r)
  \/ \E r \in DOMAIN pc : SaveUploadFails(r)
  \/ \E r \in DOMAIN pc : CloseFails(r)
  \/ \E r \in DOMAIN pc : Rasterize(r, 0..MaxPages)
  \/ \E r \in DOMAIN pc : RasterizeFails(r)
  \/ \E r \in DOMAIN pc : OcrPage(r, PageTexts)
  \/ \E r \in DOMAIN pc : OcrPageFails(r)
  \/ \E r \in DOMAIN pc : OcrReturn(r)
  \/ \E r \in DOMAIN pc : NoText(r)
  \/ \E r \in DOMAIN pc : GeminiRaises(r)
  \/ \E r \in DOMAIN pc : GeminiNoText(r)
  \/ \E r \in DOMAIN pc : GeminiReturns(r, SampleTexts)
  \/ \E r \in DOMAIN pc : AIFailed(r)
  \/ \E r \in DOMAIN pc : Success(r)
  \/ \E r \in DOMAIN pc : Except(r)
  \/ \E r \in DOMAIN pc : Finally(r)

Spec == Init /\ [][Next]_vars

\* One request with a one-page upload, every LLM text of at most MaxLen
\* tokens.
NextParse ==
  \/ \E r \in DOMAIN pc : Reject(r, FewNames)
  \/ \E r \in DOMAIN pc : Accept(r, FewNames)
  \/ \E r \in DOMAIN pc : CreateTemp(r, {1})
  \/ \E r \in DOMAIN pc : CreateTempFails(r)
  \/ \E r \in DOMAIN pc : SaveUpload(r)
  \/ \E r \in DOMAIN pc : SaveUploadFails(r)
  \/ \E r \in DOMAIN pc : CloseFails(r)
  \/ \E r \in DOMAIN pc : Rasterize(r, {1})
  \/ \E r \in DOMAIN pc : RasterizeFails(r)
  \/ \E r \in DOMAIN pc : OcrPage(r, FewPages)
  \/ \E r \in DOMAIN pc : OcrPageFails(r)
  \/ \E r \in DOMAIN pc : OcrReturn(r)
  \/ \E r \in DOMAIN pc : NoText(r)
  \/ \E r \in DOMAIN pc : GeminiRaises(r)
  \/ \E r \in DOMAIN pc : GeminiNoText(r)
  \/ \E r \in DOMAIN pc : GeminiReturns(r, AllTexts)
  \/ \E r \in DOMAIN pc : AIFailed(r)
  \/ \E r \in DOMAIN pc : Success(r)
  \/ \E r \in DOMAIN pc : Except(r)
  \/ \E r \in DOMAIN pc : Finally(r)

SpecParse == Init /\ [][NextParse]_vars

\* NumRequests requests in any interleaving.
NextConc ==
  \/ \E r \in DOMAIN pc : Reject(r, FewNames)
  \/ \E r \in DOMAIN pc : Accept(r, FewNames)
  \/ \E r \in DOMAIN pc : CreateTemp(r, Paths)
  \/ \E r \in DOMAIN pc : CreateTempFails(r)
  \/ \E r \in DOMAIN pc : SaveUpload(r)
  \/ \E r \in DOMAIN pc : SaveUploadFails(r)
  \/ \E r \in DOMAIN pc : CloseFails(r)
  \/ \E r \in DOMAIN pc : Rasterize(r, {1})
  \/ \E r \in DOMAIN pc : RasterizeFails(r)
  \/ \E r \in DOMAIN pc : OcrPage(r, FewPages)
  \/ \E r \in DOMAIN pc : OcrPageFails(r)
  \/ \E r \in DOMAIN pc : OcrReturn(r)
  \/ \E r \in DOMAIN pc : NoText(r)
  \/ \E r \in DOMAIN pc : GeminiRaises(r)
  \/ \E r \in DOMAIN pc : GeminiNoText(r)
  \/ \E r \in DOMAIN pc : GeminiReturns(r, FewTexts)
  \/ \E r \in DOMAIN pc : AIFailed(r)
  \/ \E r \in DOMAIN pc : Success(r)
  \/ \E r \in DOMAIN pc : Except(r)
  \/ \E r \in DOMAIN pc : Finally(r)

SpecConc == InitConc /\ [][NextConc]_vars

\* ------------------------------------------------------------- properties
Requests == DOMAIN pc

NoTextEnvelope ==
  LLMResponse(FALSE, EmptyMap, <<"No text could be extracted from the PDF.">>)

\* The file name ends in ".pdf", read off its last four characters.
IsPdfName(fn) ==
  /\ Len(fn) >= 4
  /\ fn[Len(fn) - 3] = "."
  /\ fn[Len(fn) - 2] = "p"
  /\ fn[Len(fn) - 1] = "d"
  /\ fn[Len(fn)] = "f"

\* The text holds a fence, an optional json tag, blanks, an object from a
\* "{" to a "}", blanks and a closing fence.
ContainsFencedObject(s) ==
  \E i \in 1..Len(s) :
    /\ s[i] = "FENCE"
    /\ \E b \in (i + 1)..Len(s) :
         /\ s[b] = "{"
         /\ \A k \in (i + 1)..(b - 1) : s[k] \in WS \/ (k = i + 1 /\ s[k] = "json")
         /\ \E e \in (b + 1)..Len(s) :
              /\ s[e] = "}"
              /\ \E f \in (e + 1)..Len(s) :
                   /\ s[f] = "FENCE"
                   /\ \A k \in (e + 1)..(f - 1) : s[k] \in WS

NonWhitespaceCount(text) == Len(SelectSeq(text, NotWS))

\* The request's transient file is still in the temporary directory.
FileRemains(r) ==
  temp_file[r] # 0 /\ temp_file[r] \in fs /\ owner[temp_file[r]] = r

\* C1: once an accepted request has ended, on whatever path, the transient
\* file it created no longer exists.
C1_TempFileRemoved ==
  \A r \in Requests :
    (pc[r] = "done" /\ IsPdfName(filename[r])) => ~FileRemains(r)

\* C2: every envelope extract_pdf returns has no error when success is true
\* and empty data when success is false.
C2_EnvelopeInvariant ==
  \A r \in Requests :
    result[r].kind = "LLMResponse" =>
      /\ result[r].success => result[r].error = NoneMsg
      /\ ~result[r].success => result[r].data = EmptyMap

C2_Witness ==
  \E r \in Requests :
    /\ pc[r] = "done"
    /\ result[r].kind = "LLMResponse"
    /\ ~result[r].success
    /\ structured_data[r] # EmptyMap

\* The response text starts with "{" or holds a fenced object, and the text
\* or the captured span is not valid JSON.
MatchedButInvalid(text) ==
  LET t == strip(text)
  IN \/ startswith(t, "{") /\ ~json_loads(t).ok
     \/ /\ ~startswith(t, "{")
        /\ ContainsFencedObject(t)
        /\ ~json_loads(re_search(t).group).ok

\* C3 as claimed: a matched span that fails to parse ends the request with
\* the envelope of the top-level handler, "Processing failed: " followed by
\* the parse exception's message.
C3_ProcessingFailed ==
  \A r \in Requests :
    (pc[r] = "done" /\ response[r].kind = "text" /\ MatchedButInvalid(response[r].text))
      => result[r] = LLMResponse(FALSE, EmptyMap,
                                 <<"Processing failed: ">> \o JSONDecodeErrorMsg)

\* C3 as amended: a matched span that fails to parse is caught inside the
\* adapter, never reaches the top-level handler, is never a rawResponse
\* result, and ends the request with success=false and
\* "AI extraction failed: " followed by the parse exception's message.
C3_AIExtractionFailed ==
  \A r \in Requests :
    (response[r].kind = "text" /\ MatchedButInvalid(response[r].text)) =>
      /\ structured_data[r] = ErrorMap(JSONDecodeErrorMsg)
      /\ exc[r] = NoExc
      /\ pc[r] = "done" =>
           result[r] = LLMResponse(FALSE, EmptyMap,
                                   <<"AI extraction failed: ">> \o JSONDecodeErrorMsg)

C3_Witness ==
  \E r \in Requests :
    /\ pc[r] = "done"
    /\ response[r].kind = "text"
    /\ ~startswith(strip(response[r].text), "{")
    /\ MatchedButInvalid(response[r].text)
    /\ ~result[r].success

\* C4 as claimed: a normalized text that is empty or has fewer than 10
\* non-whitespace characters gets the fixed "No text" envelope and the LLM
\* is never called.
C4_FewNonWhitespace ==
  \A r \in Requests :
    ("check" \in visited[r] /\ NonWhitespaceCount(strip(extracted_text[r])) < 10) =>
      /\ calls[r].llm = 0
      /\ pc[r] = "done" => result[r] = NoTextEnvelope

\* C4 as amended: a normalized text that is empty or whose trimmed length,
\* the single spaces between words included, is below 10 gets the fixed
\* "No text" envelope and the LLM is never called.
C4_ShortText ==
  \A r \in Requests :
    ("check" \in visited[r] /\ Len(strip(extracted_text[r])) < 10) =>
      /\ calls[r].llm = 0
      /\ response[r] = NoResponse
      /\ pc[r] = "done" => result[r] = NoTextEnvelope

C4_Witness ==
  \E r \in Requests :
    /\ pc[r] = "done"
    /\ "check" \in visited[r]
    /\ Len(extracted_text[r]) = 9
    /\ NonWhitespaceCount(extracted_text[r]) = 5
    /\ result[r] = NoTextEnvelope

\* C5: when rasterization or OCR of a page fails, the client receives an
\* HTTP 500 whose message is "OCR extraction failed: " plus the cause, and
\* the LLM is not called.
C5_OcrFailureIsHttp500 ==
  \A r \in Requests :
    (pc[r] = "done" /\ exc[r].type = "HTTPException") =>
      /\ result[r] = HTTPError(500, exc[r].msg)
      /\ calls[r].llm = 0

\* The object the parser takes from the text, when there is one.
ParsesAsObject(text) ==
  LET t == strip(text)
  IN IF startswith(t, "{") THEN json_loads(t).ok
     ELSE ContainsFencedObject(t) /\ json_loads(re_search(t).group).ok

ParsedObject(text) ==
  LET t == strip(text)
  IN IF startswith(t, "{") THEN json_loads(t).value
     ELSE json_loads(re_search(t).group).value

\* C6: when the LLM text is a bare object that parses, or holds a fenced
\* object that parses, the envelope is success=true with data equal to the
\* parsed object and no error, whatever the object's keys.
C6_ParsedObjectReturned ==
  \A r \in Requests :
    (pc[r] = "done" /\ response[r].kind = "text" /\ ParsesAsObject(response[r].text))
      => result[r] = LLMResponse(TRUE, ParsedObject(response[r].text), NoneMsg)

\* The message the adapter reports for an exception of the LLM call.
AdapterMessage(e) == IF e.type = "TimeoutError" THEN TimeoutMsg ELSE e.msg

NoCalls == [tmp |-> 0, raster |-> 0, ocr |-> 0, llm |-> 0, unlink |-> 0]

\* C8: an upload whose file name does not end in ".pdf" is answered with
\* HTTP 400 "Only PDF files are supported"; no transient file is created for
\* it and the rasterizer, the OCR engine and the LLM are never called.
C8_NonPdfRejected ==
  \A r \in Requests :
    (pc[r] # "idle" /\ ~IsPdfName(filename[r])) =>
      /\ pc[r] = "done"
      /\ result[r] = HTTPError(400, <<"Only PDF files are supported">>)
      /\ calls[r] = NoCalls
      /\ temp_file[r] = 0
      /\ \A p \in fs : owner[p] # r

C8_Witness ==
  \E r \in Requests :
    /\ pc[r] = "done"
    /\ filename[r] = <<"a", ".", "p", "d", "f", ".", "t", "x", "t">>
    /\ result[r].status = 400

\* C9: when the LLM text neither starts with "{" nor holds a fenced object,
\* the result is {rawResponse: the trimmed text} and the envelope is
\* success=true with that mapping as data.
C9_RawResponseFallback ==
  \A r \in Requests :
    LET t == strip(response[r].text)
    IN (response[r].kind = "text" /\ ~startswith(t, "{") /\ ~ContainsFencedObject(t)) =>
         /\ structured_data[r] = RawMap(t)
         /\ exc[r] = NoExc
         /\ pc[r] \in {"finally", "done"} =>
              result[r] = LLMResponse(TRUE, RawMap(t), NoneMsg)

C9_Witness ==
  \E r \in Requests :
    /\ pc[r] = "done"
    /\ response[r].kind = "text"
    /\ strip(response[r].text) # response[r].text
    /\ strip(response[r].text) # << >>
    /\ "rawResponse" \in DOMAIN result[r].data
    /\ result[r].success

\* Everything a request owns.
Local(r) ==
  <<pc[r], filename[r], temp_file[r], temp_file_path[r], images[r],
    ocr_text[r], extracted_text[r], response[r], structured_data[r], exc[r],
    result[r], calls[r], visited[r]>>

\* C10: in every step of every interleaving, the request that moves, failing
\* or not, changes nothing another request owns, an answer once produced
\* never changes, and a file leaves the directory or changes hands only
\* when the request that created it unlinks it.
C10_Isolation ==
  [][\A r \in Requests :
       /\ Local(r)' # Local(r) =>
            /\ \A q \in Requests \ {r} : Local(q)' = Local(q)
            /\ \A p \in fs : owner[p] # r => (p \in fs' /\ owner'[p] = owner[p])
            /\ \A p \in fs \ fs' : temp_file[r] = p /\ pc[r] = "finally"
       /\ result[r].kind # "none" => result'[r] = result[r]]_vars

C10_Witness ==
  \E r, q \in Requests :
    /\ r # q
    /\ pc[r] = "done"
    /\ exc[r] # NoExc
    /\ ~result[r].success
    /\ calls[r].unlink = 1
    /\ pc[q] = "respond"
    /\ FileRemains(q)

====
